---------------------------- MODULE Spec2Model ----------------------------
(***************************************************************************)
(* ThorLabsInstrument (instruments/thorlabs/_abstract.py): the APT packet  *)
(* transport.  sendpacket, readpacket and querypacket over a byte channel  *)
(* (write_raw / read_raw), with _packet_queue holding the packets whose    *)
(* message id did not match the awaited one.                               *)
(*                                                                         *)
(* Python 3 semantics are modelled: `x > None` raises TypeError, and       *)
(* TimeoutError is a builtin.  Python values of different types are held   *)
(* as records or strings so that they can be compared:                     *)
(*   - a message id is a string; None (no expectation) is "None";          *)
(*   - a timeout is [kind, mag, unit], kind "None", "False", "number"      *)
(*     (a bare number of seconds) or "quantity" (a unit-bearing duration); *)
(*   - a read_raw result is [none, bytes]: the None object, or bytes;      *)
(*   - time.time() is the integer clock `now`, in seconds.                 *)
(*                                                                         *)
(* Two smaller components have their own specifications over the same      *)
(* state: serialManager.newSerialConnection with its dictionary of open    *)
(* serial objects (RegistrySpec), and the property setters of the TC200    *)
(* temperature controller (enable, mode, p, i, d, pid) against a device    *)
(* that obeys the commands it is sent (TC200Spec).  Each specification     *)
(* moves its own component and leaves the others as Init made them.        *)
(***************************************************************************)
EXTENDS Integers, Sequences, FiniteSets

\* ---------------------------------------------------------------- bounds

\* Frames the device sends in one session; after them read_raw finds nothing.
MaxFrames == 3
\* Largest duration (seconds) a caller passes as timeout.
MaxTimeout == 1
\* Packets written to the channel in one session.
MaxWrites == 1

\* The clock stops advancing here: late enough for a second call of the
\* session to pass its deadline.  A call with a duration starts only while
\* its deadline can still be passed.
MaxTime == MaxTimeout + 2

\* Message ids on the wire, and the id meaning "no expectation".
MsgIds == {"a", "b"}
None == "None"

\* ------------------------------------------------------------ the codec

\* A wire frame is modelled by its header fields <<message id, param1>>;
\* the remaining header bytes and the payload are not read by the session.
HeaderLen == 2

ThorLabsPacket(id, p) == [message_id |-> id, param1 |-> p]

NoPacket == ThorLabsPacket(None, 0)

pack(packet) == <<packet.message_id, packet.param1>>

\* ThorLabsPacket.unpack: a frame shorter than the header, and the None
\* object, do not decode.
unpack(resp) ==
    IF resp.none \/ Len(resp.bytes) < HeaderLen
    THEN [ok |-> FALSE, pkt |-> NoPacket]
    ELSE [ok |-> TRUE, pkt |-> ThorLabsPacket(resp.bytes[1], resp.bytes[2])]

\* ---------------------------------------------------------- the channel

\* What read_raw can return: bytes (possibly b""), or the None object.
Bytes(b) == [none |-> FALSE, bytes |-> b]
EmptyBytes == Bytes(<<>>)
NoneResp == [none |-> TRUE, bytes |-> <<>>]
\* The value of the local `resp` before the first read_raw of a call.
Unread == [none |-> TRUE, bytes |-> <<"unread">>]

\* What one read_raw may find: nothing yet (b""), a well-formed frame of
\* some id, a truncated frame, or the end-of-stream object.
ReadKinds == MsgIds \cup {"short", "eof", "empty"}

\* The read_raw result of that kind, the i-th frame of the session; param1
\* tells the frames of one id apart.
Frame(kind, i) ==
    IF kind = "empty" THEN EmptyBytes
    ELSE IF kind = "eof" THEN NoneResp
    ELSE IF kind = "short" THEN Bytes(<<"a">>)
    ELSE Bytes(pack(ThorLabsPacket(kind, i)))

\* ------------------------------------------------------------- timeouts

TimeoutNone == [kind |-> "None", mag |-> 0, unit |-> "-"]
TimeoutFalse == [kind |-> "False", mag |-> 0, unit |-> "-"]
Number(n) == [kind |-> "number", mag |-> n, unit |-> "-"]
Quantity(n, u) == [kind |-> "quantity", mag |-> n, unit |-> u]

\* The timeout arguments callers pass: None, False, bare numbers of
\* seconds (0 included) and positive quantities in seconds or milliseconds.
Timeouts ==
    {TimeoutNone, TimeoutFalse}
        \cup {Number(n) : n \in 0..MaxTimeout}
        \cup {Quantity(n, "s") : n \in 1..MaxTimeout}
        \cup {Quantity(1000 * n, "ms") : n \in 1..MaxTimeout}

\* Python truthiness of the argument (`if timeout:`).
Truthy(timeout) ==
    /\ timeout.kind \in {"number", "quantity"}
    /\ timeout.mag # 0

\* assume_units(timeout, second): a bare number becomes seconds.
assume_units(timeout) ==
    IF timeout.kind = "quantity" THEN timeout
    ELSE Quantity(timeout.mag, "s")

\* .rescale('second').magnitude
rescale(q) ==
    IF q.unit = "ms" THEN q.mag \div 1000 ELSE q.mag

\* Lines 74-75: a truthy timeout is rebound to its magnitude in seconds.
ToSeconds(timeout) ==
    IF Truthy(timeout) THEN Number(rescale(assume_units(timeout)))
    ELSE timeout

\* `timeout is None`
IsNone(timeout) == timeout.kind = "None"

\* Faulty variant of EqFalse: the comparison with False is left out.
EqFalseNever(timeout) == FALSE

\* `timeout == False`: true of False and, as Python compares, of 0.
EqFalse(timeout) ==
    \/ timeout.kind = "False"
    \/ timeout.kind = "number" /\ timeout.mag = 0

\* Faulty variant of Expired: the deadline is never found exceeded.
ExpiredNever(tic, start, timeout) == FALSE

\* `tic - t_start > timeout` for a timeout that is not None
\* (False counts as 0 in a comparison).
Expired(tic, start, timeout) == tic - start > timeout.mag

\* ------------------------------------------------------------ the state

VARIABLES
    _packet_queue,  \* self._packet_queue: message id -> packets, in arrival order
    delivered,      \* how many frames read_raw has handed over in this session
    written,        \* what write_raw has been given, in order
    now,            \* time.time()
    pc,             \* "idle"; "reading": in readpacket's loop; "done": it ended
    packet,         \* querypacket's argument (NoPacket in a bare readpacket)
    expect,         \* readpacket's argument
    timeout,        \* readpacket's argument, after lines 74-75
    t_start,        \* readpacket's local
    resp,           \* readpacket's local: the last read_raw result
    resp_id,        \* readpacket's local
    outcome,        \* what the last call returned or raised
    seen,           \* the non-empty read_raw results of this call, in order
    serialObjDict,  \* serialManager.serialObjDict: port -> serial object
    opened,         \* the serial objects serial.Serial() has made, in order
    connection,     \* what the last newSerialConnection returned or raised
    status,         \* TC200 device: the number its "stat?" reply holds
    gains,          \* TC200 device: its P, I and D gains
    sent,           \* TC200: what the last property assignment wrote to the device
    raised,         \* TC200: what the last property assignment raised
    assigned        \* TC200: the last property assignment, [name, args]

sessionVars ==
    <<_packet_queue, delivered, written, now, pc, packet, expect, timeout,
      t_start, resp, resp_id, outcome, seen>>

registryVars == <<serialObjDict, opened, connection>>

tc200Vars == <<status, gains, sent, raised, assigned>>

vars == <<sessionVars, registryVars, tc200Vars>>

\* ---------------------------------------------------- results of a call

Pending == [kind |-> "pending", pkt |-> NoPacket, last |-> "-", expect |-> "-"]
Returned(pkt) == [kind |-> "packet", pkt |-> pkt, last |-> "-", expect |-> "-"]
ReturnedNone == [kind |-> "None", pkt |-> NoPacket, last |-> "-", expect |-> "-"]
\* Faulty variant of TimeoutError: the two ids change places.
TimeoutErrorSwapped(last, exp) ==
    [kind |-> "TimeoutError", pkt |-> NoPacket, last |-> exp, expect |-> last]

\* Lines 102-105: "Last message was {resp_id}, was looking for {expect}".
TimeoutError(last, exp) ==
    [kind |-> "TimeoutError", pkt |-> NoPacket, last |-> last, expect |-> exp]

\* Lines 110-112: "Expected packet {expect}, got nothing instead."
IOErrorNothing(exp) ==
    [kind |-> "IOError", pkt |-> NoPacket, last |-> "nothing", expect |-> exp]

\* Lines 114-116: "APT returned message ID {pkt._message_id}, expected {expect}".
IOErrorMismatch(got, exp) ==
    [kind |-> "IOError", pkt |-> NoPacket, last |-> got, expect |-> exp]

\* `tic - t_start > None`
TypeError == [kind |-> "TypeError", pkt |-> NoPacket, last |-> "-", expect |-> "-"]
\* unpack's failure
MalformedFrame ==
    [kind |-> "MalformedFrame", pkt |-> NoPacket, last |-> "-", expect |-> "-"]

\* -------------------------------------------------------- readpacket

\* Faulty variants of Enqueue: the packet goes to the front of its list; the
\* packet is not kept.
EnqueueFront(queue, pkt) ==
    [queue EXCEPT ![pkt.message_id] = <<pkt>> \o @]

EnqueueDropped(queue, pkt) == queue

\* Faulty variant of Enqueue: the list of the id keeps the newest packet only.
EnqueueLatestOnly(queue, pkt) ==
    [queue EXCEPT ![pkt.message_id] = <<pkt>>]

\* Faulty variant of Enqueue: the packet is appended twice.
EnqueueTwice(queue, pkt) ==
    [queue EXCEPT ![pkt.message_id] = Append(Append(@, pkt), pkt)]

\* Line 93: self._packet_queue[resp_id].append(pkt)
Enqueue(queue, pkt) ==
    [queue EXCEPT ![pkt.message_id] = Append(@, pkt)]

\* Faulty variant of BreaksLoop: the one-shot case is left out.
BreaksOnMatchOnly(tmo, rid, exp) == rid = exp

\* Line 89: (timeout is None) or (resp_id == expect)
BreaksLoop(tmo, rid, exp) == IsNone(tmo) \/ rid = exp

\* Faulty variant of Continue: an empty read ends the call with an error.
ContinueUnlessEmpty(queue, rid) ==
    IF rid = "empty"
    THEN [pc |-> "done", queue |-> queue, resp_id |-> rid,
          outcome |-> IOErrorNothing(rid)]
    ELSE [pc |-> "reading", queue |-> queue, resp_id |-> rid,
          outcome |-> Pending]

\* What one pass of the loop, or the code after it, leaves behind.
Continue(queue, rid) ==
    [pc |-> "reading", queue |-> queue, resp_id |-> rid, outcome |-> Pending]

\* Faulty variant of Finish: after a frame that does not decode the loop
\* reads again.
FinishUnlessMalformed(queue, rid, result) ==
    IF result.kind = "MalformedFrame"
    THEN [pc |-> "reading", queue |-> queue, resp_id |-> rid, outcome |-> Pending]
    ELSE [pc |-> "done", queue |-> queue, resp_id |-> rid, outcome |-> result]

Finish(queue, rid, result) ==
    [pc |-> "done", queue |-> queue, resp_id |-> rid, outcome |-> result]

\* Lines 106-118, reached by a break.
AfterLoop(r, pkt, exp, queue, rid) ==
    IF r.none
    THEN IF exp = None
         THEN Finish(queue, rid, ReturnedNone)
         ELSE Finish(queue, rid, IOErrorNothing(exp))
    ELSE IF exp # None /\ pkt.message_id # exp
    THEN Finish(queue, rid, IOErrorMismatch(pkt.message_id, exp))
    ELSE Finish(queue, rid, Returned(pkt))

\* Faulty variant of DeadlineCheck: a queued packet of the awaited id is
\* handed out before the loop goes on.
DeadlineCheckFromQueue(queue, rid, tic, start, tmo, exp) ==
    IF exp \in MsgIds /\ queue[exp] # <<>>
    THEN Finish(queue, rid, Returned(Head(queue[exp])))
    ELSE IF ~EqFalse(tmo)
    THEN IF IsNone(tmo)
         THEN Finish(queue, rid, TypeError)
         ELSE IF Expired(tic, start, tmo)
         THEN Finish(queue, rid, TimeoutError(rid, exp))
         ELSE Continue(queue, rid)
    ELSE Continue(queue, rid)

\* Lines 98-105.
DeadlineCheck(queue, rid, tic, start, tmo, exp) ==
    IF ~EqFalse(tmo)
    THEN IF IsNone(tmo)
         THEN Finish(queue, rid, TypeError)
         ELSE IF Expired(tic, start, tmo)
         THEN Finish(queue, rid, TimeoutError(rid, exp))
         ELSE Continue(queue, rid)
    ELSE Continue(queue, rid)

\* Faulty variant of LoopBody: the deadline is looked at before the frame
\* is compared with the awaited id.
LoopBodyDeadlineFirst(r, tic, start, tmo, exp, queue, rid0) ==
    IF r # EmptyBytes
    THEN IF ~unpack(r).ok
         THEN Finish(queue, rid0, MalformedFrame)
         ELSE LET pkt == unpack(r).pkt
                  rid == pkt.message_id
              IN  IF r.none
                  THEN AfterLoop(r, pkt, exp, queue, rid)
                  ELSE IF ~IsNone(tmo) /\ ~EqFalse(tmo) /\ Expired(tic, start, tmo)
                  THEN Finish(queue, rid, TimeoutError(rid, exp))
                  ELSE IF BreaksLoop(tmo, rid, exp)
                  THEN AfterLoop(r, pkt, exp, queue, rid)
                  ELSE DeadlineCheck(Enqueue(queue, pkt), rid, tic, start, tmo, exp)
    ELSE DeadlineCheck(queue, "empty", tic, start, tmo, exp)

\* Lines 80-105 for the read_raw result r, with time.time() = tic after it.
LoopBody(r, tic, start, tmo, exp, queue, rid0) ==
    IF r # EmptyBytes
    THEN IF ~unpack(r).ok
         THEN Finish(queue, rid0, MalformedFrame)
         ELSE LET pkt == unpack(r).pkt
                  rid == pkt.message_id
              IN  IF r.none
                  THEN AfterLoop(r, pkt, exp, queue, rid)
                  ELSE IF BreaksLoop(tmo, rid, exp)
                  THEN AfterLoop(r, pkt, exp, queue, rid)
                  ELSE DeadlineCheck(Enqueue(queue, pkt), rid, tic, start, tmo, exp)
    ELSE DeadlineCheck(queue, "empty", tic, start, tmo, exp)

\* A call with a duration begins only while the model's clock can still
\* pass its deadline.
DeadlineReachable(tmo) ==
    tmo.kind = "number" /\ tmo.mag > 0 => now + tmo.mag + 1 <= MaxTime

\* Lines 74-76: the state in which the loop is entered.
EnterLoop(e, t) ==
    /\ DeadlineReachable(ToSeconds(t))
    /\ expect' = e
    /\ timeout' = ToSeconds(t)
    /\ t_start' = now
    /\ resp' = Unread
    /\ resp_id' = "unset"
    /\ outcome' = Pending
    /\ seen' = <<>>
    /\ pc' = "reading"
    /\ UNCHANGED <<_packet_queue, delivered, now>>
    /\ UNCHANGED <<registryVars, tc200Vars>>

\* readpacket(expect, timeout), up to the loop.
Readpacket(e, t) ==
    /\ pc = "idle"
    /\ EnterLoop(e, t)
    /\ packet' = NoPacket
    /\ UNCHANGED written

\* The time (seconds) one read_raw may take: none at this resolution, or one.
Delays == {0, 1}

\* One pass of the loop: read_raw takes d seconds and returns a result of
\* the given kind.
ReadStep(d, kind) ==
    /\ pc = "reading"
    /\ now + d <= MaxTime
    /\ kind # "empty" => delivered < MaxFrames
    /\ LET r == Frame(kind, delivered + 1)
           res == LoopBody(r, now + d, t_start, timeout, expect,
                           _packet_queue, resp_id)
       IN  /\ resp' = r
           /\ delivered' = IF kind = "empty" THEN delivered ELSE delivered + 1
           /\ seen' = IF kind = "empty" THEN seen ELSE Append(seen, r)
           /\ now' = now + d
           /\ pc' = res.pc
           /\ _packet_queue' = res.queue
           /\ resp_id' = res.resp_id
           /\ outcome' = res.outcome
    /\ UNCHANGED <<written, packet, expect, timeout, t_start>>
    /\ UNCHANGED <<registryVars, tc200Vars>>

\* The call returns or raises to its caller: its arguments and locals are
\* gone, the session is ready for the next call.
NoLocals ==
    /\ packet' = NoPacket
    /\ expect' = None
    /\ timeout' = TimeoutNone
    /\ t_start' = 0
    /\ resp' = Unread
    /\ resp_id' = "unset"
    /\ outcome' = Pending
    /\ seen' = <<>>

\* The errors a caller sees as a failed exchange: TimeoutError (lines
\* 102-105) and IOError (lines 110-116).
Failure(result) == result.kind \in {"TimeoutError", "IOError"}

\* Faulty variant of Leave: a failed call takes its queued packets with it.
LeaveRollingBack ==
    /\ pc = "done"
    /\ pc' = "idle"
    /\ NoLocals
    /\ _packet_queue' = IF Failure(outcome) THEN [id \in MsgIds |-> <<>>]
                        ELSE _packet_queue
    /\ UNCHANGED <<delivered, written, now>>
    /\ UNCHANGED <<registryVars, tc200Vars>>

Leave ==
    /\ pc = "done"
    /\ pc' = "idle"
    /\ NoLocals
    /\ UNCHANGED <<_packet_queue, delivered, written, now>>
    /\ UNCHANGED <<registryVars, tc200Vars>>

\* ------------------------------------------- sendpacket and querypacket

\* The request a driver sends.
Requests == {ThorLabsPacket("b", 7)}

\* Faulty variant of write_raw: nothing reaches the channel.
write_raw_nothing(bytes) == written' = written

\* Line 46 and line 148: self._file.write_raw(packet.pack())
write_raw(bytes) == written' = Append(written, bytes)

Sendpacket(p) ==
    /\ pc = "idle"
    /\ Len(written) < MaxWrites
    /\ write_raw(pack(p))
    /\ UNCHANGED <<_packet_queue, delivered, now, pc, packet, expect, timeout,
                   t_start, resp, resp_id, outcome, seen>>
    /\ UNCHANGED <<registryVars, tc200Vars>>

Querypacket(p, e, t) ==
    /\ pc = "idle"
    /\ Len(written) < MaxWrites
    /\ write_raw(pack(p))
    /\ EnterLoop(e, t)
    /\ packet' = p

\* --------------------------------------------- serialManager: the registry

\* The port arguments callers pass: strings, and one value that is not a
\* string.
Ports == {"COM1", "COM2", "COM3"}
Port(name) == [isstr |-> TRUE, name |-> name]
NotAString == [isstr |-> FALSE, name |-> "7"]
PortArgs == {Port(name) : name \in Ports} \cup {NotAString}

\* Line 45: baud = 460800; callers also pass other rates.
DefaultBaud == 460800
Bauds == {9600, DefaultBaud}

\* The dictionary is held as a function on Ports; a missing key maps to
\* NotOpen.  A serial object is [id, port, baud]: the id tells two objects
\* of the same port and rate apart.
NotOpen == [id |-> 0, port |-> "-", baud |-> 0]
\* Line 47: raise TypeError('Serial port must be specified as a string.')
PortTypeError == [id |-> 0, port |-> "TypeError", baud |-> 0]

\* Lines 50-53: serial.Serial(port, baud, ...) makes a new object.
Serial(port, baud) == [id |-> Len(opened) + 1, port |-> port, baud |-> baud]

\* Faulty variant of Registered: the port is never found in the dictionary.
RegisteredNever(dict, port) == FALSE

\* Line 49: port in serialObjDict
Registered(dict, port) == dict[port] # NotOpen

\* Lines 45-55.
newSerialConnection(port, baud) ==
    /\ IF ~port.isstr
       THEN /\ connection' = PortTypeError
            /\ UNCHANGED <<serialObjDict, opened>>
       ELSE /\ IF ~Registered(serialObjDict, port.name)
               THEN /\ serialObjDict' =
                           [serialObjDict EXCEPT ![port.name] = Serial(port.name, baud)]
                    /\ opened' = Append(opened, Serial(port.name, baud))
               ELSE UNCHANGED <<serialObjDict, opened>>
            /\ connection' = serialObjDict'[port.name]
    /\ UNCHANGED <<sessionVars, tc200Vars>>

\* ------------------------------------------------------------- the TC200

\* Python values given to the properties: None, a bool, an int, a
\* TC200.Mode member (normal = 0, cycle = 1).
PyNone == [type |-> "None", val |-> 0]
PyBool(b) == [type |-> "bool", val |-> IF b THEN 1 ELSE 0]
PyInt(n) == [type |-> "int", val |-> n]
Mode(n) == [type |-> "Mode", val |-> n]

\* A list or tuple of values, and a value that is neither.
List(items) == [islist |-> TRUE, items |-> items]
NotAList == [islist |-> FALSE, items |-> <<>>]

\* A command line: "ens", "stat?", "mode=<name>" (held by the member's
\* value), "pgain=<n>", "igain=<n>", "dgain=<n>".
Cmd(name, arg) == [name |-> name, arg |-> arg]

\* The decimal digits of a number, as the device writes its status, and
\* Python's int() of such a reply.
RECURSIVE str(_)
str(n) == IF n < 10 THEN <<n>> ELSE Append(str(n \div 10), n % 10)

RECURSIVE int(_)
int(digits) ==
    IF Len(digits) = 1 THEN digits[1]
    ELSE 10 * int(SubSeq(digits, 1, Len(digits) - 1)) + digits[Len(digits)]

\* The device.  Bit 0 of its status is the heater enable, bit 1 the mode;
\* "ens" toggles bit 0, the other commands store their argument.
Device(st, cmd) ==
    CASE cmd.name = "ens" ->
             [st EXCEPT !.status = IF @ % 2 = 1 THEN @ - 1 ELSE @ + 1]
      [] cmd.name = "mode" -> [st EXCEPT !.status = (@ % 2) + 2 * cmd.arg]
      [] cmd.name = "pgain" -> [st EXCEPT !.gains.p = cmd.arg]
      [] cmd.name = "igain" -> [st EXCEPT !.gains.i = cmd.arg]
      [] cmd.name = "dgain" -> [st EXCEPT !.gains.d = cmd.arg]
      [] OTHER -> st

\* self.sendcmd(cmd) and self.query(cmd): the line goes to the device; a
\* query also gives the reply.
sendcmd(st, cmd) == Device([st EXCEPT !.sent = Append(@, cmd)], cmd)

query(st, cmd) == [st |-> sendcmd(st, cmd), response |-> str(st.status)]

Raise(st, error) == [st EXCEPT !.raised = error]

\* Faulty variant of IsOne: the test is inverted.
IsZero(n) == n = 0

\* Line 128: `... is 1` (CPython keeps one object for each small int).
IsOne(n) == n = 1

\* Lines 127-128: the enable getter.
enable_getter(st) ==
    LET q == query(st, Cmd("stat?", 0))
    IN  [st |-> q.st, value |-> IsOne(int(q.response) % 2)]

\* Lines 131-141: the enable setter.
enable_setter(st, newval) ==
    IF newval.type # "bool"
    THEN Raise(st, "TypeError")
    ELSE LET g == enable_getter(st)
         IN  IF newval.val = 1
             THEN IF ~g.value THEN sendcmd(g.st, Cmd("ens", 0)) ELSE g.st
             ELSE IF g.value THEN sendcmd(g.st, Cmd("ens", 0)) ELSE g.st

\* Lines 111-116: the mode setter.
mode_setter(st, newval) ==
    IF newval.type # "Mode"
    THEN Raise(st, "TypeError")
    ELSE sendcmd(st, Cmd("mode", newval.val))

\* Python's range(lo, hi), and `newval in range(lo, hi)`.
range(lo, hi) == lo..(hi - 1)

In(newval, values) == newval.type = "int" /\ newval.val \in values

\* Lines 211-214.
p_setter(st, newval) ==
    IF ~In(newval, range(1, 251))
    THEN Raise(st, "ValueError")
    ELSE sendcmd(st, Cmd("pgain", newval.val))

\* Lines 227-230.
i_setter(st, newval) ==
    IF ~In(newval, range(0, 251))
    THEN Raise(st, "ValueError")
    ELSE sendcmd(st, Cmd("igain", newval.val))

\* Lines 243-246.
d_setter(st, newval) ==
    IF ~In(newval, range(0, 251))
    THEN Raise(st, "ValueError")
    ELSE sendcmd(st, Cmd("dgain", newval.val))

\* Faulty variant of IsNotNone: None is taken for a value.
IsNotNoneAlways(value) == TRUE

\* Lines 266, 268, 270: `newval[k] is not None`
IsNotNone(value) == value # PyNone

\* Faulty variant of pid_setter: every entry is validated before any
\* command is sent.
pid_setter_atomic(st, newval) ==
    IF ~newval.islist
    THEN Raise(st, "TypeError")
    ELSE LET s1 == IF IsNotNone(newval.items[1])
                   THEN p_setter(st, newval.items[1]) ELSE st
             s2 == IF IsNotNone(newval.items[2])
                   THEN i_setter(s1, newval.items[2]) ELSE s1
             s3 == IF IsNotNone(newval.items[3])
                   THEN d_setter(s2, newval.items[3]) ELSE s2
         IN  IF s3.raised # "none" THEN Raise(st, "ValueError") ELSE s3

\* Lines 263-271: the pid setter; an exception ends it.
pid_setter(st, newval) ==
    IF ~newval.islist
    THEN Raise(st, "TypeError")
    ELSE LET s1 == IF IsNotNone(newval.items[1])
                   THEN p_setter(st, newval.items[1]) ELSE st
             s2 == IF s1.raised # "none" THEN s1
                   ELSE IF IsNotNone(newval.items[2])
                   THEN i_setter(s1, newval.items[2]) ELSE s1
             s3 == IF s2.raised # "none" THEN s2
                   ELSE IF IsNotNone(newval.items[3])
                   THEN d_setter(s2, newval.items[3]) ELSE s2
         IN  s3

\* The values assigned: booleans and an int for enable; the modes and an
\* int for mode; gains inside, at the ends of and outside the ranges.
EnableArgs == {PyBool(TRUE), PyBool(FALSE), PyInt(1)}
ModeArgs == {Mode(0), Mode(1), PyInt(1)}
GainValues == {-1, 0, 250, 251}
GainArgs == {PyInt(n) : n \in GainValues}
PidEntries == GainArgs \cup {PyNone}
PidArgs ==
    {List(<<a, b, c>>) : a \in PidEntries, b \in PidEntries, c \in PidEntries}
        \cup {NotAList}

\* The device and an empty log, as a property assignment finds them.
Before == [status |-> status, gains |-> gains, sent |-> <<>>, raised |-> "none"]

\* A property assignment leaves st behind.
Leaves(st) ==
    /\ status' = st.status
    /\ gains' = st.gains
    /\ sent' = st.sent
    /\ raised' = st.raised
    /\ UNCHANGED <<sessionVars, registryVars>>

\* tc.enable = newval
SetEnable(newval) ==
    /\ assigned' = [name |-> "enable", args |-> <<newval>>]
    /\ Leaves(enable_setter(Before, newval))

\* tc.mode = newval
SetMode(newval) ==
    /\ assigned' = [name |-> "mode", args |-> <<newval>>]
    /\ Leaves(mode_setter(Before, newval))

\* tc.p = newval
SetP(newval) ==
    /\ assigned' = [name |-> "p", args |-> <<newval>>]
    /\ Leaves(p_setter(Before, newval))

\* tc.i = newval
SetI(newval) ==
    /\ assigned' = [name |-> "i", args |-> <<newval>>]
    /\ Leaves(i_setter(Before, newval))

\* tc.d = newval
SetD(newval) ==
    /\ assigned' = [name |-> "d", args |-> <<newval>>]
    /\ Leaves(d_setter(Before, newval))

\* tc.pid = newval
SetPid(newval) ==
    /\ assigned' = [name |-> "pid", args |-> newval.items]
    /\ Leaves(pid_setter(Before, newval))

\* ------------------------------------------------------ specification

Init ==
    /\ _packet_queue = [id \in MsgIds |-> <<>>]
    /\ delivered = 0
    /\ written = <<>>
    /\ now = 0
    /\ pc = "idle"
    /\ packet = NoPacket
    /\ expect = None
    /\ timeout = TimeoutNone
    /\ t_start = 0
    /\ resp = Unread
    /\ resp_id = "unset"
    /\ outcome = Pending
    /\ seen = <<>>
    /\ serialObjDict = [name \in Ports |-> NotOpen]
    /\ opened = <<>>
    /\ connection = NotOpen
    /\ status = 0
    /\ gains = [p |-> 1, i |-> 1, d |-> 0]
    /\ sent = <<>>
    /\ raised = "none"
    /\ assigned = [name |-> "none", args |-> <<>>]

Expects == MsgIds \cup {None}

Next ==
    \/ \E e \in Expects, t \in Timeouts : Readpacket(e, t)
    \/ \E d \in Delays, kind \in ReadKinds : ReadStep(d, kind)
    \/ Leave
    \/ \E p \in Requests : Sendpacket(p)
    \/ \E p \in Requests, e \in Expects, t \in Timeouts : Querypacket(p, e, t)

Spec == Init /\ [][Next]_vars

\* Every read_raw returns and wall-clock time passes while a call waits.
Advance == \E d \in Delays \ {0}, kind \in ReadKinds : ReadStep(d, kind)

LiveSpec == Spec /\ WF_vars(Advance)

\* The registry alone: any sequence of newSerialConnection calls.
RegistryNext ==
    \E port \in PortArgs, baud \in Bauds : newSerialConnection(port, baud)

RegistrySpec == Init /\ [][RegistryNext]_vars

\* The TC200 alone: any sequence of property assignments.
TC200Next ==
    \/ \E newval \in EnableArgs : SetEnable(newval)
    \/ \E newval \in ModeArgs : SetMode(newval)
    \/ \E newval \in GainArgs : SetP(newval)
    \/ \E newval \in GainArgs : SetI(newval)
    \/ \E newval \in GainArgs : SetD(newval)
    \/ \E newval \in PidArgs : SetPid(newval)

TC200Spec == Init /\ [][TC200Next]_vars

\* ------------------------------------------------ reading the call's state

\* The frame decodes (it is neither truncated nor the None object).
Decodes(r) == unpack(r).ok

IdOf(r) == unpack(r).pkt.message_id

\* The frame decodes to a packet whose id is not the awaited one.
Mismatches(r) == Decodes(r) /\ IdOf(r) # expect

\* The packets of the given id among the frames fs, in arrival order.
PacketsOf(fs, id) ==
    LET Has(r) == Decodes(r) /\ IdOf(r) = id
        sel == SelectSeq(fs, Has)
    IN  [i \in 1..Len(sel) |-> unpack(sel[i]).pkt]

\* s ends with t.
EndsWith(s, t) ==
    /\ Len(s) >= Len(t)
    /\ SubSeq(s, Len(s) - Len(t) + 1, Len(s)) = t

Queued(pkt) ==
    \E i \in 1..Len(_packet_queue[pkt.message_id]) :
        _packet_queue[pkt.message_id][i] = pkt

\* The timeout is a duration (a number of seconds, 0 included).
Duration == timeout.kind = "number"

PositiveDuration == Duration /\ timeout.mag > 0

\* This call's earlier frames: all but the last one read.
Earlier == SubSeq(seen, 1, Len(seen) - 1)

\* ---------------------------------------------------------------- claims

\* C1: in readpacket(expect=X, timeout=<duration>), when a frame B with id X
\* is read after any number of decodable frames of other ids, the call
\* returns B, and every one of those earlier frames is in _packet_queue
\* under its own id, per id in arrival order (they are the last entries).
C1_FilteredReceive ==
    (/\ Duration
     /\ expect # None
     /\ seen # <<>>
     /\ Decodes(seen[Len(seen)])
     /\ IdOf(seen[Len(seen)]) = expect)
    => /\ pc = "done"
       /\ outcome = Returned(unpack(seen[Len(seen)]).pkt)
       /\ \A i \in 1..Len(Earlier) : Mismatches(Earlier[i])
       /\ \A id \in MsgIds :
              EndsWith(_packet_queue[id], PacketsOf(Earlier, id))
       /\ ~Queued(unpack(seen[Len(seen)]).pkt)

\* C1's case: two frames of one other id, then the awaited frame, within a
\* positive duration.
C1_Witness ==
    /\ pc = "done"
    /\ PositiveDuration
    /\ expect # None
    /\ outcome.kind = "packet"
    /\ Len(seen) = 3
    /\ IdOf(seen[1]) = IdOf(seen[2])
    /\ now - t_start <= timeout.mag

C3_NoFilterReturnsFirst ==
    (expect = None /\ seen # <<>> /\ Decodes(seen[1]))
    => /\ pc = "done"
       /\ outcome = Returned(unpack(seen[1]).pkt)
       /\ ~Queued(unpack(seen[1]).pkt)
       /\ Len(seen) = 1

\* C4 as stated: readpacket(expect=None, timeout=None) whose first read_raw
\* returns the empty result returns None and raises nothing.
C4_OneShotEndOfStream ==
    (/\ pc = "done"
     /\ expect = None
     /\ IsNone(timeout)
     /\ seen = <<>>
     /\ resp = EmptyBytes)
    => outcome = ReturnedNone

\* C5 as stated: readpacket(expect=X) whose first read_raw reports
\* end-of-stream (the empty result) fails with IOError "Expected packet X,
\* got nothing instead", not with Timeout.
C5_EndOfStreamExpected ==
    (/\ pc = "done"
     /\ expect # None
     /\ seen = <<>>
     /\ resp = EmptyBytes)
    => outcome = IOErrorNothing(expect)

C7_IndefiniteWait ==
    (timeout = TimeoutFalse /\ expect # None)
    => /\ outcome.kind # "TimeoutError"
       /\ (seen # <<>> /\ Decodes(seen[Len(seen)])
             /\ IdOf(seen[Len(seen)]) = expect)
          => (pc = "done" /\ outcome = Returned(unpack(seen[Len(seen)]).pkt))

\* C7's case: the awaited frame is returned after non-matching frames and
\* after more time than any duration of the model.
C7_Witness ==
    /\ pc = "done"
    /\ timeout = TimeoutFalse
    /\ expect # None
    /\ outcome.kind = "packet"
    /\ Len(seen) >= 2
    /\ now - t_start > MaxTimeout

LastMismatch ==
    LET Mis(r) == Mismatches(r)
        sel == SelectSeq(seen, Mis)
    IN  sel[Len(sel)]

SawMismatch == \E i \in 1..Len(seen) : Mismatches(seen[i])

\* C10 as stated: a TimeoutError carries the expected id and the id of the
\* last non-matching packet seen in the call, if one was seen, also when
\* empty reads followed it.
C10_TimeoutCarriesLastPacket ==
    (pc = "done" /\ outcome.kind = "TimeoutError" /\ expect # None)
    => /\ outcome.expect = expect
       /\ SawMismatch => outcome.last = IdOf(LastMismatch)

\* C10, amended: a TimeoutError carries the expected id and the outcome of
\* the last read_raw: the id of the last non-matching packet when that
\* packet was the last thing read, and "empty" when the last read was
\* empty, also when a non-matching packet had been seen before it.
C10_TimeoutCarriesLastRead ==
    (pc = "done" /\ outcome.kind = "TimeoutError")
    => /\ outcome.expect = expect
       /\ resp = EmptyBytes => outcome.last = "empty"
       /\ resp # EmptyBytes
              => /\ resp = LastMismatch
                 /\ resp = seen[Len(seen)]
                 /\ outcome.last = IdOf(resp)

\* C10's case: the deadline passed on an empty read after a non-matching
\* packet had been seen.
C10_Witness ==
    /\ pc = "done"
    /\ outcome.kind = "TimeoutError"
    /\ expect # None
    /\ SawMismatch
    /\ resp = EmptyBytes
    /\ outcome.last = "empty"

\* s is an initial part of t.
IsPrefix(s, t) == Len(s) <= Len(t) /\ SubSeq(t, 1, Len(s)) = s

\* The last frame read in this call is a decodable frame of the awaited id.
MatchArrived ==
    /\ expect # None
    /\ seen # <<>>
    /\ Decodes(seen[Len(seen)])
    /\ IdOf(seen[Len(seen)]) = expect

\* C11: a call that raised TimeoutError or IOError leaves the session
\* usable.  The step by which the failed call hands control back keeps
\* _packet_queue, with the packets that call enqueued, and the channel as
\* they were; every step of a querypacket made afterwards leaves each
\* list of the queue extended, never shortened; and a querypacket returns
\* the frame of the awaited id as soon as that frame is read, whatever
\* calls came before it.
C11_UsableAfterFailure ==
    /\ [][(pc = "done" /\ Failure(outcome))
          => /\ pc' = "idle"
             /\ _packet_queue' = _packet_queue
             /\ delivered' = delivered
             /\ written' = written]_vars
    /\ [][packet' # NoPacket
          => \A id \in MsgIds :
                 IsPrefix(_packet_queue[id], _packet_queue'[id])]_vars
    /\ []((packet # NoPacket /\ MatchArrived)
          => /\ pc = "done"
             /\ outcome = Returned(unpack(seen[Len(seen)]).pkt)
             /\ written # <<>>)

\* C11's case: the first frame of the session is in the queue, put there
\* by an earlier call that read no other frame and so ended by
\* TimeoutError; the querypacket made after it has read the second frame
\* and returned it.
C11_Witness ==
    /\ pc = "done"
    /\ packet # NoPacket
    /\ outcome.kind = "packet"
    /\ outcome.pkt.message_id = expect
    /\ Len(seen) = 1
    /\ delivered = 2
    /\ \E id \in MsgIds :
           /\ Len(_packet_queue[id]) = 1
           /\ _packet_queue[id][1].param1 = 1

\* The serial objects made so far for the port of that name.
OpenedFor(name) == {k \in 1..Len(opened) : opened[k].port = name}

\* C12: after any sequence of newSerialConnection calls at most one serial
\* object has been made for each port string and serialObjDict holds
\* exactly that object under the port; a call for a port that is not yet in
\* the dictionary makes the object, and a call for a port that is in it
\* returns the object already held and makes none.
C12_RegistrySingleton ==
    /\ [](\A name \in Ports :
            /\ Cardinality(OpenedFor(name)) <= 1
            /\ IF serialObjDict[name] = NotOpen
               THEN OpenedFor(name) = {}
               ELSE \E k \in OpenedFor(name) : opened[k] = serialObjDict[name])
    /\ [][\A name \in Ports :
            (\E baud \in Bauds : newSerialConnection(Port(name), baud))
            => /\ connection' = serialObjDict'[name]
               /\ connection'.port = name
               /\ IF serialObjDict[name] = NotOpen
                  THEN opened' = Append(opened, connection')
                  ELSE /\ connection' = serialObjDict[name]
                       /\ opened' = opened
                       /\ serialObjDict' = serialObjDict]_vars

\* C12's case: two ports are open and the last call, made for the port
\* opened first, returned that first object.
C12_Witness ==
    /\ Len(opened) = 2
    /\ connection = opened[1]
    /\ serialObjDict[connection.port] = connection

\* How many "ens" commands a log holds.
EnsCount(log) ==
    LET IsEns(c) == c.name = "ens"
    IN  Len(SelectSeq(log, IsEns))

\* C13: assigning a boolean v to TC200.enable sends "ens" exactly once when
\* bit 0 of the device's status differs from v and not at all when it
\* equals v; with a device that flips the bit on each "ens", the bit equals
\* v after every such assignment, hence after any sequence of them.
C13_EnableTogglesWhenNeeded ==
    [][(assigned'.name = "enable" /\ assigned'.args[1].type = "bool")
       => LET v == assigned'.args[1].val = 1
              was == status % 2 = 1
          IN  /\ raised' = "none"
              /\ EnsCount(sent') = (IF was = v THEN 0 ELSE 1)
              /\ (status' % 2 = 1) = v]_vars

\* C13's case: the heater was on and False was assigned: one "ens" went
\* out after the status query and the heater is off.
C13_Witness ==
    /\ assigned = [name |-> "enable", args |-> <<PyBool(FALSE)>>]
    /\ sent = <<Cmd("stat?", 0), Cmd("ens", 0)>>
    /\ status % 2 = 0

\* The gain commands and the device's gains, in the order of the pid list.
GainCmds == <<"pgain", "igain", "dgain">>
GainNames == <<"p", "i", "d">>

\* The commands a pid list asks for: one for each entry that is not None.
PidCmds(args) ==
    LET c(k) == IF args[k] = PyNone THEN <<>>
                ELSE <<Cmd(GainCmds[k], args[k].val)>>
    IN  c(1) \o c(2) \o c(3)

\* C14: assigning a 3-element list to TC200.pid sends no command for an
\* entry that is None and leaves that gain of the device as it was; when
\* the assignment completes, what was sent is exactly one pgain=/igain=/
\* dgain= command for each entry that is not None, in the order P, I, D;
\* and it completes whenever every entry is None or a value in [1, 250].
C14_PidNoneLeavesGain ==
    [][(assigned'.name = "pid" /\ Len(assigned'.args) = 3)
       => LET args == assigned'.args
          IN  /\ \A k \in 1..3 :
                     args[k] = PyNone
                     => /\ \A n \in 1..Len(sent') : sent'[n].name # GainCmds[k]
                        /\ gains'[GainNames[k]] = gains[GainNames[k]]
              /\ raised' = "none" => sent' = PidCmds(args)
              /\ (\A k \in 1..3 : args[k] = PyNone \/ args[k].val \in 1..250)
                 => raised' = "none"]_vars

\* C14's case: a pid assignment with None for I has sent the P and the D
\* command and no other.
C14_Witness ==
    /\ assigned.name = "pid"
    /\ Len(assigned.args) = 3
    /\ assigned.args[1] # PyNone
    /\ assigned.args[2] = PyNone
    /\ assigned.args[3] # PyNone
    /\ raised = "none"
    /\ Len(sent) = 2
    /\ sent[1].name = "pgain"
    /\ sent[2].name = "dgain"

\* C15: assigning TC200.p or TC200.i a value outside [1, 250], or TC200.d a
\* value outside [0, 250], raises ValueError and sends nothing; a value
\* inside the range sends exactly one gain command, with that value.
C15_GainRanges ==
    assigned.name \in {"p", "i", "d"}
    => LET v == assigned.args[1].val
           valid == IF assigned.name = "d" THEN 0..250 ELSE 1..250
           cmd == CASE assigned.name = "p" -> "pgain"
                    [] assigned.name = "i" -> "igain"
                    [] assigned.name = "d" -> "dgain"
       IN  IF v \in valid
           THEN raised = "none" /\ sent = <<Cmd(cmd, v)>>
           ELSE raised = "ValueError" /\ sent = <<>>

\* The last read of this call gave an empty result or a decodable frame of
\* another id than the awaited one: the reads after which line 100 is
\* reached.
ReadOn ==
    \/ resp = EmptyBytes
    \/ seen # <<>> /\ resp = seen[Len(seen)] /\ Mismatches(resp)

\* The deadline of this call has been exceeded at the last read.
PastDeadline == Duration /\ now - t_start > timeout.mag

\* C16, as claimed: when the frame of the awaited id is read after the
\* deadline of a (positive) duration has been exceeded, the call fails
\* with TimeoutError and does not return the frame.
C16_DeadlineBeforeMatch ==
    (PositiveDuration /\ MatchArrived /\ PastDeadline)
    => /\ pc = "done"
       /\ outcome.kind = "TimeoutError"

\* C16, amended: the deadline is looked at only after a read that gave an
\* empty result or a frame of another id.  A frame of the awaited id is
\* returned whenever it is read, also after the deadline was exceeded; and
\* a TimeoutError is raised only after such a non-matching read, with the
\* deadline exceeded.
C16_MatchReturnedAfterDeadline ==
    /\ (Duration /\ MatchArrived)
       => /\ pc = "done"
          /\ outcome = Returned(unpack(seen[Len(seen)]).pkt)
    /\ (pc = "done" /\ outcome.kind = "TimeoutError")
       => /\ ~MatchArrived
          /\ ReadOn
          /\ PastDeadline

\* C16's case: the awaited frame was read after the deadline of a positive
\* duration had been exceeded, and was returned.
C16_Witness ==
    /\ PositiveDuration
    /\ MatchArrived
    /\ PastDeadline
    /\ pc = "done"
    /\ outcome.kind = "packet"

\* C17: every numeric timeout, the bare 0 included, is a duration counted
\* from the start of the call: once a read that does not end the call
\* finds it exceeded, the call has raised TimeoutError.
C17_ZeroIsADuration ==
    (pc # "idle" /\ Duration /\ ReadOn /\ PastDeadline)
    => /\ pc = "done"
       /\ outcome.kind = "TimeoutError"

\* C18: _packet_queue is empty when the session is created, and every step
\* of every call leaves under each message id an extension of the sequence
\* that was there: nothing is removed or reordered.
C18_QueueOnlyGrows ==
    /\ \A id \in MsgIds : _packet_queue[id] = <<>>
    /\ [][\A id \in MsgIds :
            IsPrefix(_packet_queue[id], _packet_queue'[id])]_vars

\* C18's case: the current call has read a single frame and appended its
\* packet behind one that an earlier call had left under the same id.
C18_Witness ==
    \E id \in MsgIds :
        /\ pc # "idle"
        /\ Len(seen) = 1
        /\ Len(_packet_queue[id]) = 2
        /\ _packet_queue[id][2] = unpack(seen[1]).pkt
        /\ _packet_queue[id][1].param1 < _packet_queue[id][2].param1

\* C19: a packet a call returns is the one decoded from the last read_raw
\* of that same call, never one taken from _packet_queue; while the queue
\* holds a packet of the awaited id, a read that gives an empty result or a
\* frame of another id within the deadline (or with timeout False) leaves
\* the call reading.
C19_QueueNeverConsulted ==
    /\ outcome.kind = "packet"
       => /\ pc = "done"
          /\ seen # <<>>
          /\ resp = seen[Len(seen)]
          /\ outcome.pkt = unpack(resp).pkt
          /\ ~Queued(outcome.pkt)
    /\ (/\ pc # "idle"
        /\ expect # None
        /\ _packet_queue[expect] # <<>>
        /\ ReadOn
        /\ timeout.kind = "False" \/ (Duration /\ ~PastDeadline))
       => pc = "reading"

\* C19's case: the queue held a packet of the awaited id, the call read on
\* and returned the frame it then read.
C19_Witness ==
    /\ pc = "done"
    /\ expect # None
    /\ outcome.kind = "packet"
    /\ outcome.pkt.message_id = expect
    /\ _packet_queue[expect] # <<>>
    /\ Len(seen) >= 2

\* C20: with a duration or False as timeout, a read_raw that gives an empty
\* result leaves _packet_queue as it is and the call reading; the call ends
\* at such a read only by TimeoutError, when the deadline of a duration is
\* exceeded.
C20_EmptyReadsArePolls ==
    [][(pc = "reading" /\ ~IsNone(timeout) /\ resp' = EmptyBytes)
       => /\ _packet_queue' = _packet_queue
          /\ \/ pc' = "reading" /\ outcome' = Pending
             \/ /\ pc' = "done"
                /\ outcome'.kind = "TimeoutError"
                /\ timeout.kind = "number"
                /\ now' - t_start > timeout.mag]_vars

\* C20's case: within a positive duration, after a frame of another id,
\* an empty result was read a second later and the call is still reading.
C20_Witness ==
    /\ pc = "reading"
    /\ PositiveDuration
    /\ expect # None
    /\ seen # <<>>
    /\ resp = EmptyBytes
    /\ now > t_start

\* C21: when a frame read by readpacket does not decode, that read ends the
\* call with the decoding failure, with _packet_queue exactly as it was
\* before the frame was read; and the call, once ended so, reads nothing
\* more: its only step hands control back, the channel and the queue
\* untouched.
C21_MalformedFramePropagated ==
    /\ [][(pc = "reading" /\ ~resp'.none /\ resp' # EmptyBytes /\ ~Decodes(resp'))
          => /\ pc' = "done"
             /\ outcome'.kind = "MalformedFrame"
             /\ delivered' = delivered + 1
             /\ _packet_queue' = _packet_queue]_vars
    /\ [][(pc = "done" /\ outcome.kind = "MalformedFrame")
          => /\ pc' = "idle"
             /\ delivered' = delivered
             /\ _packet_queue' = _packet_queue]_vars

\* C21's case: a querypacket waiting for a reply had queued a frame of
\* another id and then read a truncated frame: it ended with the decoding
\* failure and the queue holds that one packet.
C21_Witness ==
    /\ pc = "done"
    /\ packet # NoPacket
    /\ expect # None
    /\ outcome.kind = "MalformedFrame"
    /\ Len(seen) = 2
    /\ ~seen[2].none
    /\ ~Decodes(seen[2])
    /\ \E id \in MsgIds : _packet_queue[id] = <<unpack(seen[1]).pkt>>

\* How often a packet stands in _packet_queue.
Occurrences(pkt) ==
    Cardinality({n \in 1..Len(_packet_queue[pkt.message_id]) :
                     _packet_queue[pkt.message_id][n] = pkt})

\* The entries this call has added: frames are numbered through the
\* session (param1), and this call has read the last Len(seen) of them.
AddedByCall ==
    {e \in MsgIds \X (1..delivered) :
        /\ e[2] <= Len(_packet_queue[e[1]])
        /\ _packet_queue[e[1]][e[2]].param1 > delivered - Len(seen)}

\* C22: within a call each decoded frame stands in _packet_queue at most
\* once, the packet the call returns does not stand in it at all, every
\* entry the call has added is the packet of a non-empty frame it read (an
\* empty read adds none), and so the entries added are never more than the
\* non-empty frames read.
C22_FrameAccountedOnce ==
    /\ \A k \in 1..Len(seen) :
           Decodes(seen[k]) => Occurrences(unpack(seen[k]).pkt) <= 1
    /\ outcome.kind = "packet" => Occurrences(outcome.pkt) = 0
    /\ \A e \in AddedByCall :
           \E k \in 1..Len(seen) :
               /\ Decodes(seen[k])
               /\ _packet_queue[e[1]][e[2]] = unpack(seen[k]).pkt
    /\ Cardinality(AddedByCall) <= Len(seen)

\* C22's case: a call, while time passed, read two frames of other ids
\* and then the awaited frame: it added two entries and returned the
\* third packet.
C22_Witness ==
    /\ pc = "done"
    /\ outcome.kind = "packet"
    /\ Len(seen) = 3
    /\ Cardinality(AddedByCall) = 2
    /\ now > t_start

\* The values each gain's setter lets through (lines 212, 228, 244), in the
\* order of the pid list.
Enforced == <<range(1, 251), range(0, 251), range(0, 251)>>

\* The entry a pid list fails at: the first that is not None and is
\* outside the range its setter enforces; 0 when there is none.
FirstRejected(args) ==
    LET bad == {k \in 1..3 : args[k] # PyNone /\ args[k].val \notin Enforced[k]}
    IN  IF bad = {} THEN 0
        ELSE CHOOSE k \in bad : \A j \in bad : k <= j

\* The commands for the entries before the k-th that are not None.
PidCmdsBefore(args, k) ==
    LET c(j) == IF j >= k \/ args[j] = PyNone THEN <<>>
                ELSE <<Cmd(GainCmds[j], args[j].val)>>
    IN  c(1) \o c(2) \o c(3)

\* C23: the pid setter assigns P, then I, then D, and is not atomic.  When
\* an entry is outside the range its setter enforces, ValueError is raised
\* after the commands for the earlier entries that are not None have been
\* sent, in that order, and nothing is sent for that entry or a later one;
\* the device keeps the gains those commands set.  When the argument is
\* neither list nor tuple, TypeError is raised and nothing is sent.
C23_PidInOrderNotAtomic ==
    [][assigned'.name = "pid"
       => IF Len(assigned'.args) # 3
          THEN /\ raised' = "TypeError"
               /\ sent' = <<>>
               /\ gains' = gains
          ELSE LET args == assigned'.args
                   k == FirstRejected(args)
               IN  IF k = 0
                   THEN raised' = "none" /\ sent' = PidCmdsBefore(args, 4)
                   ELSE /\ raised' = "ValueError"
                        /\ sent' = PidCmdsBefore(args, k)
                        /\ \A j \in 1..3 :
                               gains'[GainNames[j]] =
                                   IF j < k /\ args[j] # PyNone
                                   THEN args[j].val
                                   ELSE gains[GainNames[j]]]_vars

\* C23's case: P was valid, I was out of range and D valid: the P command
\* went out alone, the device has the new P gain, and ValueError was raised.
C23_Witness ==
    /\ assigned.name = "pid"
    /\ Len(assigned.args) = 3
    /\ assigned.args[1] = PyInt(250)
    /\ assigned.args[2] = PyInt(251)
    /\ assigned.args[3] = PyInt(0)
    /\ raised = "ValueError"
    /\ sent = <<Cmd("pgain", 250)>>
    /\ gains.p = 250

===========================================================================
